---------------------------- MODULE Spec2Model ----------------------------
(***************************************************************************)
(* A model of pysphinx_autoindex/autoindexer.py: the Autoindexer walks a   *)
(* project tree, imports every module it finds to list its classes,        *)
(* renders sphinx directives and splices them into index.rst.              *)
(*                                                                         *)
(* Python strings are TLA+ strings (Len, SubSeq and \o act on them as on   *)
(* Python's str); indices are Python's, starting at 0.                     *)
(***************************************************************************)
EXTENDS Integers, Sequences, FiniteSets, TLC

VARIABLES
    fs,               \* the project tree: the set of paths under project_root
    broken,           \* the module files whose import raises an Exception
    module_prefixes,  \* self.module_prefixes
    modules,          \* the dict _traverse_modules returned (insertion order)
    trace,            \* the paths the traversal listed or recorded
    pc,               \* the position of run()
    sphinx_data,      \* the rendered body handed to _generate_docs_index
    index_rst,        \* the content of the file at index_rst_location
    calls             \* the calls of _generate_docs_index so far: what each
                      \* read, was given, did and left in the file

vars == <<fs, broken, module_prefixes, modules, trace, pc, sphinx_data,
          index_rst, calls>>

walk_vars == <<fs, broken, module_prefixes, modules, trace>>

---------------------------------------------------------------------------
(* Bounds *)

\* The chunks an initial index.rst is made of.
MaxChunks == 3

\* The calls of _generate_docs_index on one file.
MaxRuns == 2

\* The entries of the project tree, and how deep below project_root.
MaxEntries == 3

MaxDepth == 2

\* The module files whose import raises.
MaxBroken == 1

---------------------------------------------------------------------------
(* Python's str *)

Max(a, b) == IF a >= b THEN a ELSE b

Min(a, b) == IF a <= b THEN a ELSE b

\* s[a:b] with Python's rules: a negative index counts from the end, and
\* both are clamped to the string.
Slice(s, a, b) ==
    LET n  == Len(s)
        lo == IF a < 0 THEN Max(a + n, 0) ELSE Min(a, n)
        hi == IF b < 0 THEN Max(b + n, 0) ELSE Min(b, n)
    IN  IF lo >= hi THEN "" ELSE SubSeq(s, lo + 1, hi)

\* s[a:]
SliceFrom(s, a) == Slice(s, a, Len(s))

\* s.startswith(p)
StartsWith(s, p) == Len(p) <= Len(s) /\ SubSeq(s, 1, Len(p)) = p

\* s.find(sub, start), for start >= 0: the lowest index >= start where sub
\* occurs, or -1.
FindFrom(s, sub, start) ==
    LET hits == { i \in start..(Len(s) - Len(sub)) :
                    SubSeq(s, i + 1, i + Len(sub)) = sub }
    IN  IF hits = {} THEN -1
        ELSE CHOOSE i \in hits : \A j \in hits : i <= j

\* s.find(sub)
Find(s, sub) == FindFrom(s, sub, 0)

\* Python's truth value of an int: `not n` is n == 0.
Not(n) == n = 0

---------------------------------------------------------------------------
(* Autoindexer: class attributes *)

INITIAL_MARK == "Indices and tables"

BEGIN_MARK == ".. pysphinx-autoindex start"

END_MARK == ".. pysphinx-autoindex end"

---------------------------------------------------------------------------
(* Autoindexer._generate_docs_index and _write_index *)

\* The fallback branch (begin mark not found): the span is empty, at the
\* position find() gave for INITIAL_MARK.
AnchorBranch(source) ==
    LET initial_mark_location == Find(source, INITIAL_MARK)
    IN  [raised        |-> Not(initial_mark_location),
         branch        |-> "anchor",
         replace_start |-> initial_mark_location,
         replace_end   |-> initial_mark_location,
         leading_chars |-> "",
         trailing_chars |-> "\n\n"]

\* The mutant that ends the span where the end mark begins.
MarkerBranchShort(source) ==
    LET begin_mark_location == Find(source, BEGIN_MARK)
        end_mark_location   == Find(source, END_MARK)
    IN  [raised        |-> Not(end_mark_location),
         branch        |-> "marker",
         replace_start |-> begin_mark_location,
         replace_end   |-> end_mark_location,
         leading_chars |-> "\n",
         trailing_chars |-> ""]

\* The marker branch: the span runs from the begin mark to the end of what
\* find() gave for END_MARK.
MarkerBranch(source) ==
    LET begin_mark_location == Find(source, BEGIN_MARK)
        end_mark_location   == Find(source, END_MARK)
    IN  [raised        |-> Not(end_mark_location),
         branch        |-> "marker",
         replace_start |-> begin_mark_location,
         replace_end   |-> end_mark_location + Len(END_MARK),
         leading_chars |-> "\n",
         trailing_chars |-> ""]

\* The span to replace and the separators, or the ValueError.
ReplaceSpan(source) ==
    IF Find(source, BEGIN_MARK) < 0 THEN AnchorBranch(source)
    ELSE MarkerBranch(source)

\* The mutant that wraps the body in the marks on the marker branch only.
OutputDataUnwrapped(source, data, span) ==
    Slice(source, 0, span.replace_start) \o span.leading_chars
        \o (IF span.branch = "marker" THEN BEGIN_MARK \o data \o END_MARK
            ELSE data)
        \o span.trailing_chars \o SliceFrom(source, span.replace_end)

\* output_data: the '{}{}{}{}{}{}{}'.format(...) of the seven parts.
OutputData(source, data, span) ==
    Slice(source, 0, span.replace_start) \o span.leading_chars \o BEGIN_MARK
        \o data \o END_MARK \o span.trailing_chars
        \o SliceFrom(source, span.replace_end)

\* The whole call: read the file, find the span, and either raise (the
\* file is not opened for writing) or write output_data over the file.
GenerateDocsIndex ==
    /\ pc = "formatted"
    /\ Len(calls) < MaxRuns
    /\ LET source == index_rst
           span   == ReplaceSpan(source)
           output == IF span.raised THEN index_rst
                     ELSE OutputData(source, sphinx_data, span)
       IN  /\ index_rst' = output
           /\ calls' = Append(calls, [source |-> source,
                                      data   |-> sphinx_data,
                                      branch |-> span.branch,
                                      raised |-> span.raised,
                                      output |-> output])
    /\ pc' = "done"
    /\ UNCHANGED <<walk_vars, sphinx_data>>

---------------------------------------------------------------------------
(* Python's str order, sorted(), and os.path.splitext *)

\* The characters of the names in use, in code point order.
Alphabet ==
    ".0123456789ABCDEFGHIJKLMNOPQRSTUVWXYZ_abcdefghijklmnopqrstuvwxyz"

Ord(c) == CHOOSE i \in 1..Len(Alphabet) : SubSeq(Alphabet, i, i) = c

\* a < b on str: the first differing character decides, a proper prefix
\* is smaller.
RECURSIVE StrLess(_, _)
StrLess(a, b) ==
    IF Len(b) = 0 THEN FALSE
    ELSE IF Len(a) = 0 THEN TRUE
    ELSE IF SubSeq(a, 1, 1) = SubSeq(b, 1, 1)
         THEN StrLess(SliceFrom(a, 1), SliceFrom(b, 1))
    ELSE Ord(SubSeq(a, 1, 1)) < Ord(SubSeq(b, 1, 1))

\* sorted(S) of a set (or of a dict's keys) of str.
RECURSIVE Sorted(_)
Sorted(S) ==
    IF S = {} THEN <<>>
    ELSE LET least == CHOOSE a \in S : \A b \in S \ {a} : StrLess(a, b)
         IN  <<least>> \o Sorted(S \ {least})

\* s.rfind('.'): the highest index of a dot at or below i, or -1.
RECURSIVE RFindDot(_, _)
RFindDot(s, i) ==
    IF i < 0 THEN -1
    ELSE IF SubSeq(s, i + 1, i + 1) = "." THEN i
    ELSE RFindDot(s, i - 1)

\* Whether s[0:i] is made of dots only (splitext skips leading dots).
RECURSIVE OnlyDots(_, _)
OnlyDots(s, i) ==
    i = 0 \/ (SubSeq(s, i, i) = "." /\ OnlyDots(s, i - 1))

\* os.path.splitext(f) of a bare filename: <<root, ext>>.
Splitext(f) ==
    LET dot == RFindDot(f, Len(f) - 1)
    IN  IF dot < 0 \/ OnlyDots(f, dot) THEN <<f, "">>
        ELSE <<Slice(f, 0, dot), SliceFrom(f, dot)>>

\* name.split('.')
RECURSIVE Split(_)
Split(name) ==
    LET dot == Find(name, ".")
    IN  IF dot < 0 THEN <<name>>
        ELSE <<Slice(name, 0, dot)>> \o Split(SliceFrom(name, dot + 1))

---------------------------------------------------------------------------
(* The project tree and what importing its modules does *)

\* The names a directory entry may have. By these names an entry is a
\* directory or a file.
DirNames == {"proj_core", "tests", "a"}

FileNames == {"__init__.py", "setup.py", "b.py", "other_mod.py", "notes.txt"}

\* Two orders os.listdir may give the entries of a directory in (it
\* promises none); every pair of names comes in both orders.
ListingOrders ==
    { <<"__init__.py", "a", "b.py", "notes.txt", "other_mod.py", "proj_core",
        "setup.py", "tests">>,
      <<"tests", "setup.py", "proj_core", "other_mod.py", "notes.txt", "b.py",
        "a", "__init__.py">> }

\* The module_prefixes a run may be constructed with.
PrefixLists == { <<>>, <<"proj_">>, <<"a", "proj_">> }

\* os.path.isdir(path) and os.path.isfile(path); a path is the sequence of
\* names from project_root down.
IsDir(tree, path) == path \in tree /\ path[Len(path)] \in DirNames

IsFile(tree, path) == path \in tree /\ path[Len(path)] \in FileNames

\* os.listdir(start_dir), in the order the environment gives.
ListDir(tree, order, start_dir) ==
    LET Present(f) == Append(start_dir, f) \in tree
    IN  SelectSeq(order, Present)

\* The members inspect.getmembers gives for a module that imports: two
\* classes it declares, a class imported from other_mod, a class imported
\* from proj_util, and a function.
Members(module_name) ==
    { [isclass |-> TRUE,  name |-> "Z", module |-> module_name],
      [isclass |-> TRUE,  name |-> "A", module |-> module_name],
      [isclass |-> TRUE,  name |-> "M", module |-> "other_mod"],
      [isclass |-> TRUE,  name |-> "P", module |-> "proj_util"],
      [isclass |-> FALSE, name |-> "f", module |-> module_name] }

\* The file importlib.import_module(module_name) executes last: the
\* package's __init__.py, else the module's .py file.
ModuleFile(tree, module_name) ==
    LET parts == Split(module_name)
        init  == Append(parts, "__init__.py")
    IN  IF init \in tree THEN init
        ELSE SubSeq(parts, 1, Len(parts) - 1)
                 \o <<parts[Len(parts)] \o ".py">>

\* Whether importlib.import_module(module_name) raises: the module's file,
\* or the __init__.py of a package above it, raises or is missing.
ImportRaises(tree, brk, module_name) ==
    LET parts == Split(module_name)
    IN  \/ ModuleFile(tree, module_name) \notin tree
        \/ ModuleFile(tree, module_name) \in brk
        \/ \E i \in 1..(Len(parts) - 1) :
               Append(SubSeq(parts, 1, i), "__init__.py") \in brk

---------------------------------------------------------------------------
(* Python's dict, as the sequence of its <<key, value>> items in insertion
   order *)

Keys(d) == { d[i][1] : i \in 1..Len(d) }

\* d[key]
Get(d, key) == d[CHOOSE i \in 1..Len(d) : d[i][1] = key][2]

\* d[key] = value: a key already there keeps its place.
DictSet(d, key, value) ==
    IF key \in Keys(d)
    THEN [i \in 1..Len(d) |-> IF d[i][1] = key THEN <<key, value>> ELSE d[i]]
    ELSE Append(d, <<key, value>>)

\* d.update(other)
RECURSIVE DictUpdate(_, _)
DictUpdate(d, other) ==
    IF other = <<>> THEN d
    ELSE DictUpdate(DictSet(d, other[1][1], other[1][2]), Tail(other))

---------------------------------------------------------------------------
(* Autoindexer: the tree walk *)

SKIPPED_FILENAMES == {"__init__.py", "setup.py", "tests"}

\* The mutant whose skip-set lacks 'tests'.
SkippedButTests(f) == f \in {"__init__.py", "setup.py"}

\* f in self.SKIPPED_FILENAMES
Skipped(f) == f \in SKIPPED_FILENAMES

\* Autoindexer._include_module
IncludeModule(prefixes, module_name) ==
    IF prefixes = <<>> THEN TRUE
    ELSE \E i \in 1..Len(prefixes) : StartsWith(module_name, prefixes[i])

\* The mutant that tests the module the member was found in.
KeepClassOfImporter(prefixes, module_name, obj) ==
    obj.isclass /\ IncludeModule(prefixes, module_name)

\* The test a member passes to be added to classes.
KeepClass(prefixes, module_name, obj) ==
    obj.isclass /\ IncludeModule(prefixes, obj.module)

\* The mutant that has no try/except around the import.
FindClassesNoExcept(env, module_name) ==
    IF ImportRaises(env.tree, env.brk, module_name)
    THEN [raised |-> TRUE, classes |-> {}]
    ELSE [raised  |-> FALSE,
          classes |-> { obj.name : obj \in
                          { o \in Members(module_name) :
                              KeepClass(env.prefixes, module_name, o) } }]

\* Autoindexer._find_classes_in_module: an Exception of the import or of
\* getmembers is caught and printed, and the set is returned as it is.
FindClassesInModule(env, module_name) ==
    IF ImportRaises(env.tree, env.brk, module_name)
    THEN [raised |-> FALSE, classes |-> {}]
    ELSE [raised  |-> FALSE,
          classes |-> { obj.name : obj \in
                          { o \in Members(module_name) :
                              KeepClass(env.prefixes, module_name, o) } }]

\* module_name qualified by parent_module_name ("" stands for None).
Qualified(parent_module_name, module_name) ==
    IF parent_module_name # "" THEN parent_module_name \o "." \o module_name
    ELSE module_name

\* Autoindexer._traverse_modules. The result holds the dict, whether an
\* exception came out of the call, and the paths it listed or recorded.
RECURSIVE TraverseModules(_, _, _)
RECURSIVE TraverseEntries(_, _, _, _, _)
TraverseModules(env, start_dir, parent_module_name) ==
    TraverseEntries(env, start_dir, parent_module_name,
                    ListDir(env.tree, env.order, start_dir),
                    [modules |-> <<>>, raised |-> FALSE, trace |-> {start_dir}])

\* The for loop over os.listdir(start_dir), from the entries left to do.
TraverseEntries(env, start_dir, parent_module_name, entries, acc) ==
    IF entries = <<>> \/ acc.raised THEN acc
    ELSE
    LET f         == Head(entries)
        full_file == Append(start_dir, f)
        here ==
          IF Skipped(f) THEN acc
          ELSE IF IsDir(env.tree, full_file)
                  /\ IsFile(env.tree, Append(full_file, "__init__.py"))
          THEN
            LET module_name == Qualified(parent_module_name, f)
            IN  IF ~IncludeModule(env.prefixes, module_name) THEN acc
                ELSE
                LET found == FindClassesInModule(env, module_name)
                    below == TraverseModules(env, full_file, module_name)
                IN  IF found.raised THEN [acc EXCEPT !.raised = TRUE]
                    ELSE [modules |->
                            DictUpdate(DictSet(acc.modules, module_name,
                                               found.classes),
                                       below.modules),
                          raised |-> below.raised,
                          trace  |-> acc.trace \cup {full_file}
                                        \cup below.trace]
          ELSE IF IsFile(env.tree, full_file) /\ Splitext(f)[2] = ".py"
          THEN
            LET module_name == Qualified(parent_module_name, Splitext(f)[1])
                found       == FindClassesInModule(env, module_name)
            IN  IF found.raised THEN [acc EXCEPT !.raised = TRUE]
                ELSE [acc EXCEPT
                        !.modules = DictSet(acc.modules, module_name,
                                            found.classes),
                        !.trace = acc.trace \cup {full_file}]
          ELSE acc
    IN  TraverseEntries(env, start_dir, parent_module_name, Tail(entries),
                        here)

---------------------------------------------------------------------------
(* Autoindexer._sphinx_formatter *)

\* The automodule directive of one module.
Automodule(mod) == "\n.. automodule:: " \o mod \o "\n    :members: \n"

\* The autoclass directive of one class.
Autoclass(cl) == "\n.. autoclass:: " \o cl \o "\n    :members: \n"

\* The inner loop: the directives of the classes, in the order given.
RECURSIVE FormatClasses(_)
FormatClasses(classes) ==
    IF classes = <<>> THEN ""
    ELSE Autoclass(Head(classes)) \o FormatClasses(Tail(classes))

\* The outer loop over the module names, in the order given.
RECURSIVE FormatModules(_, _)
FormatModules(d, mods) ==
    IF mods = <<>> THEN ""
    ELSE Automodule(Head(mods)) \o FormatClasses(Sorted(Get(d, Head(mods))))
             \o FormatModules(d, Tail(mods))

\* The mutant that walks modules.keys() as the dict gives them.
FormatterUnsorted(d) == FormatModules(d, [i \in 1..Len(d) |-> d[i][1]])

\* Autoindexer._sphinx_formatter
SphinxFormatter(d) == FormatModules(d, Sorted(Keys(d)))

---------------------------------------------------------------------------
(* The environment of the walk: the project tree is edited between runs *)

\* A file or a directory is created under project_root.
CreateEntry(parent, name) ==
    /\ pc = "idle"
    /\ Cardinality(fs) < MaxEntries
    /\ Len(parent) < MaxDepth
    /\ parent = <<>> \/ IsDir(fs, parent)
    /\ Append(parent, name) \notin fs
    /\ fs' = fs \cup {Append(parent, name)}
    /\ UNCHANGED <<broken, module_prefixes, modules, trace, pc, sphinx_data,
                   index_rst, calls>>

\* A source file is edited so that importing it raises.
BreakModule(path) ==
    /\ pc = "idle"
    /\ Cardinality(broken) < MaxBroken
    /\ IsFile(fs, path)
    /\ Splitext(path[Len(path)])[2] = ".py"
    /\ path \notin broken
    /\ broken' = broken \cup {path}
    /\ UNCHANGED <<fs, module_prefixes, modules, trace, pc, sphinx_data,
                   index_rst, calls>>

---------------------------------------------------------------------------
(* Autoindexer.run, step by step *)

\* self._traverse_modules(self.project_root)
Traverse(order) ==
    /\ pc = "idle"
    /\ LET result == TraverseModules([tree |-> fs, brk |-> broken,
                                      prefixes |-> module_prefixes,
                                      order |-> order], <<>>, "")
       IN  /\ modules' = result.modules
           /\ trace' = result.trace
           /\ pc' = IF result.raised THEN "failed" ELSE "traversed"
    /\ UNCHANGED <<fs, broken, module_prefixes, sphinx_data, index_rst, calls>>

\* self._sphinx_formatter(...)
Format ==
    /\ pc = "traversed"
    /\ sphinx_data' = SphinxFormatter(modules)
    /\ pc' = "formatted"
    /\ UNCHANGED <<walk_vars, index_rst, calls>>

\* The walk and the rendering of one run are over; its locals are gone.
Finish ==
    /\ pc = "formatted"
    /\ modules' = <<>>
    /\ trace' = {}
    /\ sphinx_data' = ""
    /\ pc' = "idle"
    /\ UNCHANGED <<fs, broken, module_prefixes, index_rst, calls>>

\* The tool is run again on the file, with the body its walk rendered.
RunAgain(body) ==
    /\ pc = "done"
    /\ Len(calls) < MaxRuns
    /\ sphinx_data' = body
    /\ pc' = "formatted"
    /\ UNCHANGED <<walk_vars, index_rst, calls>>

---------------------------------------------------------------------------
(* The walk and the rendering, over the project trees within the bounds *)

\* The index.rst sphinx-quickstart leaves, in short.
SampleIndex == "Welcome\n" \o INITIAL_MARK \o "\n"

Init ==
    /\ fs = {}
    /\ broken = {}
    /\ module_prefixes \in PrefixLists
    /\ modules = <<>>
    /\ trace = {}
    /\ pc = "idle"
    /\ sphinx_data = ""
    /\ index_rst = SampleIndex
    /\ calls = <<>>

Next ==
    \/ \E parent \in {<<>>} \cup fs, name \in DirNames \cup FileNames :
          CreateEntry(parent, name)
    \/ \E path \in fs : BreakModule(path)
    \/ \E order \in ListingOrders : Traverse(order)
    \/ Format
    \/ Finish

Spec == Init /\ [][Next]_vars

---------------------------------------------------------------------------
(* The patch step, over the documents and the bodies within the bounds *)

\* The pieces an index.rst is made of.
Chunks == {"x", INITIAL_MARK, BEGIN_MARK, END_MARK}

\* The documents of n chunks.
RECURSIVE DocsOf(_)
DocsOf(n) ==
    IF n = 0 THEN {""}
    ELSE { c \o d : c \in Chunks, d \in DocsOf(n - 1) }

Docs == UNION { DocsOf(n) : n \in 0..MaxChunks }

\* The bodies: of a project with no module, and of one module.
Bodies == { SphinxFormatter(<<>>), SphinxFormatter(<< <<"a", {"Z", "A"}>> >>) }

InitPatch ==
    /\ fs = {}
    /\ broken = {}
    /\ module_prefixes = <<>>
    /\ modules = <<>>
    /\ trace = {}
    /\ pc = "formatted"
    /\ sphinx_data \in Bodies
    /\ index_rst \in Docs
    /\ calls = <<>>

NextPatch ==
    \/ GenerateDocsIndex
    \/ \E body \in Bodies : RunAgain(body)

SpecPatch == InitPatch /\ [][NextPatch]_vars

---------------------------------------------------------------------------
(* What the claims speak of *)

\* The number of places where sub occurs in s.
Count(s, sub) ==
    Cardinality({ i \in 0..(Len(s) - Len(sub)) :
                    SubSeq(s, i + 1, i + Len(sub)) = sub })

\* The managed region a run with this body writes.
Region(data) == BEGIN_MARK \o data \o END_MARK

\* A begin mark with an end mark after it.
BeginThenEnd(s) ==
    LET at == Find(s, BEGIN_MARK)
    IN  at >= 0 /\ FindFrom(s, END_MARK, at + Len(BEGIN_MARK)) >= 0

\* The file has a begin mark and an end mark, or no begin mark and the
\* fallback anchor: a place for the managed region.
HasPlace(s) ==
    IF Find(s, BEGIN_MARK) >= 0 THEN Find(s, END_MARK) >= 0
    ELSE Find(s, INITIAL_MARK) >= 0

\* _traverse_modules has returned and its dict is at hand.
Walked == pc \in {"traversed", "formatted"}

\* The position of key in the dict's insertion order.
Place(d, key) == CHOOSE i \in 1..Len(d) : d[i][1] = key

\* The dicts with the items of d in every insertion order.
Reorderings(d) ==
    { [i \in 1..Len(d) |-> d[f[i]]] : f \in Permutations(1..Len(d)) }

---------------------------------------------------------------------------
(* The patch step *)

\* C1: a call that reads a file with neither the begin mark nor the
\* fallback anchor raises ValueError and leaves the file as it was.
C1_NoMarkNoAnchorRaises ==
    \A i \in 1..Len(calls) :
        (Find(calls[i].source, BEGIN_MARK) < 0
            /\ Find(calls[i].source, INITIAL_MARK) < 0)
        => (calls[i].raised /\ calls[i].output = calls[i].source)

\* C2: a call that reads a file with the begin mark and no end mark raises
\* ValueError before any write, so the file is left as it was.
C2_NoEndMarkRaises ==
    \A i \in 1..Len(calls) :
        (Find(calls[i].source, BEGIN_MARK) >= 0
            /\ Find(calls[i].source, END_MARK) < 0)
        => (calls[i].raised /\ calls[i].output = calls[i].source)

\* C3: two calls in a row that succeed with the same body, the first on a
\* file with its marks or else its anchor, leave a file where the managed
\* region of that body occurs once, as it did after the first call: the
\* second call replaces it and does not duplicate it.
C3_SecondRunReplaces ==
    \A i \in 1..(Len(calls) - 1) :
        (/\ HasPlace(calls[i].source)
         /\ ~calls[i].raised
         /\ ~calls[i + 1].raised
         /\ calls[i].data = calls[i + 1].data
         /\ Count(calls[i].output, Region(calls[i].data)) = 1)
        => Count(calls[i + 1].output, Region(calls[i].data)) = 1

\* C4, as claimed: with a begin mark and an end mark in the file, what
\* precedes the begin mark after the call is what preceded it before, and
\* what follows the managed region's end mark is what followed the end
\* mark before.
C4_OutsideUntouched ==
    \A i \in 1..Len(calls) :
        LET c    == calls[i]
            b    == Find(c.source, BEGIN_MARK)
            e    == Find(c.source, END_MARK)
            ob   == Find(c.output, BEGIN_MARK)
        IN  (b >= 0 /\ e >= 0 /\ ~c.raised)
            => /\ Slice(c.output, 0, ob) = Slice(c.source, 0, b)
               /\ SliceFrom(c.output, ob + Len(Region(c.data)))
                      = SliceFrom(c.source, e + Len(END_MARK))

\* C4, amended: with a begin mark and an end mark in the file, a call that
\* succeeds leaves, before the begin mark, what preceded the first begin
\* mark followed by one newline; then the managed region; then what
\* followed the first end mark. A call that raises leaves the file as it
\* was.
C4_OutsidePreserved ==
    \A i \in 1..Len(calls) :
        LET c    == calls[i]
            b    == Find(c.source, BEGIN_MARK)
            e    == Find(c.source, END_MARK)
            ob   == Find(c.output, BEGIN_MARK)
        IN  (b >= 0 /\ e >= 0)
            => IF c.raised THEN c.output = c.source
               ELSE /\ Slice(c.output, 0, ob) = Slice(c.source, 0, b) \o "\n"
                    /\ Slice(c.output, ob, ob + Len(Region(c.data)))
                           = Region(c.data)
                    /\ SliceFrom(c.output, ob + Len(Region(c.data)))
                           = SliceFrom(c.source, e + Len(END_MARK))

\* A call replaced a managed region that had text before and after it.
C4_Witness ==
    \E i \in 1..Len(calls) :
        LET c == calls[i]
            b == Find(c.source, BEGIN_MARK)
            e == Find(c.source, END_MARK)
        IN  /\ ~c.raised
            /\ 0 < b
            /\ b < e
            /\ e + Len(END_MARK) < Len(c.source)
            /\ c.data # ""

\* C7: after a call that succeeds on the fallback branch the file holds a
\* begin mark with an end mark after it, and every later call on the file
\* takes the marker branch.
C7_MarkersInstalled ==
    \A i \in 1..Len(calls) :
        (calls[i].branch = "anchor" /\ ~calls[i].raised)
        => /\ BeginThenEnd(calls[i].output)
           /\ \A j \in (i + 1)..Len(calls) : calls[j].branch = "marker"

\* A call on the fallback branch wrote before the anchor, and the next call
\* found the marks.
C7_Witness ==
    /\ Len(calls) >= 2
    /\ calls[1].branch = "anchor"
    /\ ~calls[1].raised
    /\ Find(calls[1].source, INITIAL_MARK) > 0
    /\ calls[2].branch = "marker"
    /\ ~calls[2].raised

---------------------------------------------------------------------------
(* The walk and the rendering *)

\* C5: with prefixes given, every key of the dict _traverse_modules returns
\* starts with one of them.
C5_KeysPassFilter ==
    (Walked /\ module_prefixes # <<>>)
    => \A key \in Keys(modules) :
           \E i \in 1..Len(module_prefixes) :
               StartsWith(key, module_prefixes[i])

C8_ClassKeptByDeclaringModule ==
    Walked =>
        \A key \in Keys(modules) :
            /\ \A cl \in Get(modules, key) :
                   \E obj \in Members(key) :
                       /\ obj.isclass
                       /\ obj.name = cl
                       /\ IncludeModule(module_prefixes, obj.module)
            /\ module_prefixes = <<"proj_">> => "M" \notin Get(modules, key)

\* With ['proj_'], proj_core was imported and the class it imports from
\* other_mod was left out of its set.
C8_Witness ==
    /\ Walked
    /\ module_prefixes = <<"proj_">>
    /\ "proj_core" \in Keys(modules)
    /\ Get(modules, "proj_core") = {"A", "P", "Z"}

\* C9: the walk neither lists nor records a path with a name of the
\* skip-set in it, at any depth.
C9_SkippedIgnored ==
    Walked =>
        \A path \in trace :
            \A i \in 1..Len(path) : path[i] \notin SKIPPED_FILENAMES

\* The tree held a directory named tests in a package that was walked.
C9_Witness ==
    /\ Walked
    /\ <<"a">> \in trace
    /\ <<"a", "tests">> \in fs

\* C10: in the rendered body the automodule directives come in sorted
\* order of the module names, each module's autoclass directives come in
\* sorted order between its automodule directive and the next one, and
\* the body is the same for every insertion order of the dict.
C10_RenderedSorted ==
    pc = "formatted" =>
        LET ModuleAt(mod) == Find(sphinx_data, Automodule(mod))
            ClassAt(mod, cl) ==
                FindFrom(sphinx_data, Autoclass(cl), Max(ModuleAt(mod), 0))
        IN  /\ \A mod \in Keys(modules) : ModuleAt(mod) >= 0
            /\ \A m1, m2 \in Keys(modules) :
                   StrLess(m1, m2) => ModuleAt(m1) < ModuleAt(m2)
            /\ \A mod \in Keys(modules) :
                   \A c1, c2 \in Get(modules, mod) :
                       /\ ClassAt(mod, c1) > ModuleAt(mod)
                       /\ StrLess(c1, c2) => ClassAt(mod, c1) < ClassAt(mod, c2)
                       /\ \A next \in Keys(modules) :
                              StrLess(mod, next) =>
                                  ClassAt(mod, c1) < ModuleAt(next)
            /\ \A d \in Reorderings(modules) :
                   SphinxFormatter(d) = sphinx_data

\* A dict whose keys were inserted out of order, with classes, was
\* rendered.
C10_Witness ==
    /\ pc = "formatted"
    /\ \E m1, m2 \in Keys(modules) :
           /\ StrLess(m1, m2)
           /\ Place(modules, m2) < Place(modules, m1)
           /\ Cardinality(Get(modules, m1)) >= 2

===========================================================================
